---- MODULE Spec2Model ----
(***************************************************************************)
(* WebMonitor.py: one run of main() fetches the seminar listing, scrapes   *)
(* every seminar page into the parallel lists seminar_titles and           *)
(* seminar_details, and save_to_excel reconciles that batch against the    *)
(* workbook seminars.xlsx (row 1 = headers, one data row per seminar,      *)
(* column 2 = title, 3 = date of execution, 4 = details, later columns =   *)
(* logged updates).                                                        *)
(*                                                                         *)
(* A sheet is a sequence of rows, a row the sequence of its cells up to    *)
(* the last cell that was ever written; a cell never written reads None.   *)
(* Titles and details are non-empty strings.                               *)
(***************************************************************************)
EXTENDS Integers, Sequences, FiniteSets, TLC

\* Bound of the model: the requests.get calls of all runs together.
MaxRequests == 6

\* The value of an empty cell, and of a missing <h1> / sidebar <div>.
None == "None"

\* The excel file does not exist (FileNotFoundError on load).
NoFile == << >>

\* The excel file holds what a write that stopped half way left: not a
\* workbook load_workbook can read.
Unreadable == << << "unreadable" >> >>

\* The second invocation before it is started.
OtherIdle == [pc |-> "idle", titles |-> << >>, details |-> << >>, sheet |-> << >>]

\* The seminar URLs a listing can hold.  A URL is only passed to
\* requests.get and printed, and a listing may repeat it; one value is enough.
URLs == {"u1"}

\* The <h1> texts and sidebar texts a seminar page can hold.
Titles == {"A"}
Details == {"x"}

\* HTTP status codes of a response: success, and a failure.
StatusCodes == {200, 500}

NoName == "No seminar name found"
NoDetails == "No details found."

VARIABLES
    disk,             \* the workbook stored as EXCEL_FILE, or NoFile
    clock,            \* datetime.now(), in seconds; one run per second
    requests,         \* the requests.get calls made so far
    pc,               \* the position of main()
    seminar_links,    \* main: the list get_seminar_links returned
    link_i,           \* main: position of the for loop over seminar_links
    seminar_titles,   \* main: titles scraped so far
    seminar_details,  \* main: details scraped so far
    responses,        \* status codes of the seminar page responses of this run
    sheet,            \* save_to_excel: wb.active
    execution_date,   \* save_to_excel: the timestamp of this run
    existing_titles,  \* save_to_excel: column B as read before the loop
    i,                \* save_to_excel: the loop index (1-based)
    prev,             \* the batch the latest completed save_to_excel was given
    listing_status,   \* status code of the listing response of this run, or 0
    titles_from,      \* for each scraped title, the position of its link
    details_from,     \* for each scraped details entry, the position of its link
    other             \* a second invocation of the script on the same file

vars == << disk, clock, requests, pc, seminar_links, link_i, seminar_titles,
           seminar_details, responses, sheet, execution_date,
           existing_titles, i, prev, listing_status, titles_from,
           details_from, other >>

----------------------------------------------------------------------------
\* Sequences over S of length at most n.
SeqUpTo(S, n) == UNION { [1..k -> S] : k \in 0..n }

\* datetime.now().strftime("%Y-%m-%d %H:%M:%S"): the second, as text.
strftime(t) == ToString(t)

\* sheet.max_row
max_row(sh) == Len(sh)

\* sheet.cell(row, column).value
Cell(sh, row, col) ==
    IF row \in 1..Len(sh) /\ col \in 1..Len(sh[row]) THEN sh[row][col] ELSE None

\* A row of n empty cells.
Blank(n) == [c \in 1..n |-> None]

\* One row with the cell in column col set to value.
SetInRow(r, col, value) ==
    LET wide == IF col > Len(r) THEN r \o Blank(col - Len(r)) ELSE r
    IN  [wide EXCEPT ![col] = value]

\* sheet.cell(row, column, value): rows up to the written one come to exist.
SetCell(sh, row, col, value) ==
    LET tall == IF row > Len(sh)
                THEN sh \o [r \in 1..(row - Len(sh)) |-> << >>]
                ELSE sh
    IN  [tall EXCEPT ![row] = SetInRow(tall[row], col, value)]

\* openpyxl.Workbook() with the column headers written on the first run.
NewWorkbook ==
    << << None, "Seminar Title", "Date of Execution", "Seminar Details",
          None, "Date of Update", "New Seminar Details",
          "Date of Update 2", "New Seminar Details 2" >> >>

\* [sheet.cell(row=i, column=2).value for i in range(2, sheet.max_row + 1)]
ReadTitles(sh) == [k \in 1..(max_row(sh) - 1) |-> Cell(sh, k + 1, 2)]

\* title in existing_titles
Contains(s, x) == \E k \in 1..Len(s) : s[k] = x

\* A slip: the last position holding x, not the first.
IndexOfLast(s, x) ==
    (CHOOSE k \in 1..Len(s) : s[k] = x /\ \A j \in (k + 1)..Len(s) : s[j] # x) - 1

\* existing_titles.index(title): the first position (0-based)
IndexOf(s, x) == (CHOOSE k \in 1..Len(s) :
                     s[k] = x /\ \A j \in 1..(k - 1) : s[j] # x) - 1

\* The while loop of save_to_excel started at column c:
\* the first column of c, c+2, c+4, ... whose cell is empty.
RECURSIVE NextEmpty(_, _, _)
NextEmpty(sh, row, c) ==
    IF Cell(sh, row, c) # None THEN NextEmpty(sh, row, c + 2) ELSE c

\* The column the search for the next empty update slot starts from.
FirstProbe == 4

\* A slip: the search is dropped and every update goes to the first slot.
LastColumnFirstSlot(sh, row) == FirstProbe + 2

\* last_column after the while loop.
LastColumn(sh, row) == NextEmpty(sh, row, FirstProbe)

\* A slip: the scraped details are compared with the initial details.
LastDetailsInitial(sh, row) == Cell(sh, row, 4)

\* last_details: the cell compared with the scraped details.
LastDetails(sh, row) == Cell(sh, row, LastColumn(sh, row) - 1)

\* A slip: the update goes to the bottom row, not to the row of the title.
UpdateBottomRow(sh, existing, title, details, date) ==
    LET row == max_row(sh)
        last_column == LastColumn(sh, row)
    IN  IF details # LastDetails(sh, row)
        THEN SetCell(SetCell(sh, row, last_column, date),
                     row, last_column + 1, details)
        ELSE sh

\* The branch for a title found in existing_titles.
UpdateExisting(sh, existing, title, details, date) ==
    LET row == IndexOf(existing, title) + 2
        last_column == LastColumn(sh, row)
    IN  IF details # LastDetails(sh, row)
        THEN SetCell(SetCell(sh, row, last_column, date),
                     row, last_column + 1, details)
        ELSE sh

\* A slip: new_row is off by one and the bottom row is written over.
AddNewOverLast(sh, title, details, date) ==
    LET new_row == max_row(sh)
    IN  SetCell(SetCell(SetCell(sh, new_row, 2, title),
                        new_row, 3, date),
                new_row, 4, details)

\* The branch for a new title: a fresh row at the bottom.
AddNew(sh, title, details, date) ==
    LET new_row == max_row(sh) + 1
    IN  SetCell(SetCell(SetCell(sh, new_row, 2, title),
                        new_row, 3, date),
                new_row, 4, details)

\* One iteration of the for loop of save_to_excel.
Reconcile(sh, existing, title, details, date) ==
    IF Contains(existing, title)
    THEN UpdateExisting(sh, existing, title, details, date)
    ELSE AddNew(sh, title, details, date)

----------------------------------------------------------------------------
Init ==
    /\ disk = NoFile
    /\ clock = 1
    /\ requests = 0
    /\ pc = "main"
    /\ seminar_links = << >>
    /\ link_i = 1
    /\ seminar_titles = << >>
    /\ seminar_details = << >>
    /\ responses = << >>
    /\ sheet = << >>
    /\ execution_date = None
    /\ existing_titles = << >>
    /\ i = 1
    /\ prev = [titles |-> << >>, details |-> << >>, fresh |-> FALSE]
    /\ listing_status = 0
    /\ titles_from = << >>
    /\ details_from = << >>
    /\ other = OtherIdle

\* A slip: the status of the listing response is not tested.
get_seminar_links_any_status(status, links) == links

\* get_seminar_links as main sees it: [] on a non-200 listing, else the links
\* of the listing in document order (duplicates kept).
get_seminar_links(status, links) == IF status # 200 THEN << >> ELSE links

\* main up to the scraping loop: the listing is fetched; with no links the
\* run ends.  (The listing holds no more links than requests are left.)
GetSeminarLinks ==
    /\ pc = "main"
    /\ requests < MaxRequests
    /\ requests' = requests + 1
    /\ \E status \in StatusCodes,
          links \in SeqUpTo(URLs, MaxRequests - requests - 1) :
          LET found == get_seminar_links(status, links)
          IN  /\ seminar_links' = found
              /\ listing_status' = status
              /\ pc' = IF found # << >> THEN "scrape" ELSE "done"
    /\ link_i' = 1
    /\ seminar_titles' = << >>
    /\ seminar_details' = << >>
    /\ responses' = << >>
    /\ titles_from' = << >>
    /\ details_from' = << >>
    /\ UNCHANGED << disk, clock, sheet, execution_date, existing_titles, i, prev,
                    other >>

\* The title scrape_seminar_page appends for a page with <h1> text h1.
seminar_name(h1) == IF h1 # None THEN h1 ELSE NoName

\* The details scrape_seminar_page appends for a page with sidebar text.
raw_text(sidebar) == IF sidebar # None THEN sidebar ELSE NoDetails

\* A slip: the title is appended before the status is tested.
ScrapedTitlesAnyStatus(titles, status, h1) == Append(titles, seminar_name(h1))

\* scrape_seminar_page on the lists, for a response (status, h1, sidebar).
ScrapedTitles(titles, status, h1) ==
    IF status = 200 THEN Append(titles, seminar_name(h1)) ELSE titles

\* A slip: the else branch for a missing sidebar appends nothing.
ScrapedDetailsNoSentinel(details, status, sidebar) ==
    IF status = 200 /\ sidebar # None THEN Append(details, sidebar) ELSE details

ScrapedDetails(details, status, sidebar) ==
    IF status = 200 THEN Append(details, raw_text(sidebar)) ELSE details

\* A slip: the loop over the links is left at the first failed page.
AfterPageAbort(status, k, n) ==
    IF status # 200 THEN "done" ELSE IF k = n THEN "load" ELSE "scrape"

\* Where main is after scrape_seminar_page returned for link k of n: the
\* for loop goes on whatever the status was, and save_to_excel follows it.
AfterPage(status, k, n) == IF k = n THEN "load" ELSE "scrape"

\* One iteration of main's loop: scrape_seminar_page(link, ...).
ScrapeSeminarPage ==
    /\ pc = "scrape"
    /\ link_i <= Len(seminar_links)
    /\ \E status \in StatusCodes :
          \E h1 \in (IF status = 200 THEN Titles \cup {None} ELSE {None}),
             sidebar \in (IF status = 200 THEN Details \cup {None} ELSE {None}) :
              /\ seminar_titles' = ScrapedTitles(seminar_titles, status, h1)
              /\ seminar_details' = ScrapedDetails(seminar_details, status, sidebar)
              /\ responses' = Append(responses, status)
              /\ pc' = AfterPage(status, link_i, Len(seminar_links))
    /\ titles_from' = IF Len(seminar_titles') > Len(seminar_titles)
                      THEN Append(titles_from, link_i) ELSE titles_from
    /\ details_from' = IF Len(seminar_details') > Len(seminar_details)
                       THEN Append(details_from, link_i) ELSE details_from
    /\ requests' = requests + 1
    /\ link_i' = link_i + 1
    /\ UNCHANGED << disk, clock, seminar_links, sheet, execution_date,
                    existing_titles, i, prev, listing_status, other >>

\* save_to_excel up to its loop: the workbook is loaded or created, the
\* timestamp taken, column B read.
Load ==
    /\ pc = "load"
    /\ disk # Unreadable
    /\ sheet' = IF disk = NoFile THEN NewWorkbook ELSE disk
    /\ execution_date' = strftime(clock)
    /\ existing_titles' = ReadTitles(sheet')
    /\ i' = 1
    /\ pc' = IF Len(seminar_titles) = 0 THEN "save" ELSE "loop"
    /\ UNCHANGED << disk, clock, requests, seminar_links, link_i, seminar_titles,
                    seminar_details, responses, prev, listing_status,
                    titles_from, details_from, other >>

\* One iteration of the loop of save_to_excel.
ProcessCandidate ==
    /\ pc = "loop"
    /\ i <= Len(seminar_titles)
    /\ sheet' = Reconcile(sheet, existing_titles, seminar_titles[i],
                          seminar_details[i], execution_date)
    /\ i' = i + 1
    /\ pc' = IF i = Len(seminar_titles) THEN "save" ELSE "loop"
    /\ UNCHANGED << disk, clock, requests, seminar_links, link_i, seminar_titles,
                    seminar_details, responses, execution_date,
                    existing_titles, prev, listing_status, titles_from,
                    details_from, other >>

\* wb.save(EXCEL_FILE); save_to_excel and main return.
Save ==
    /\ pc = "save"
    /\ disk' = sheet
    /\ prev' = [titles |-> seminar_titles, details |-> seminar_details,
                fresh |-> \A k \in 1..Len(seminar_titles) :
                             ~Contains(existing_titles, seminar_titles[k])]
    /\ pc' = "done"
    /\ UNCHANGED << clock, requests, seminar_links, link_i, seminar_titles,
                    seminar_details, responses, sheet, execution_date,
                    existing_titles, i, listing_status, titles_from,
                    details_from, other >>

\* The script is run again, later.
Restart ==
    /\ pc \in {"done", "crashed"}
    /\ requests < MaxRequests
    /\ clock' = clock + 1
    /\ pc' = "main"
    /\ seminar_links' = << >>
    /\ link_i' = 1
    /\ seminar_titles' = << >>
    /\ seminar_details' = << >>
    /\ responses' = << >>
    /\ sheet' = << >>
    /\ execution_date' = None
    /\ existing_titles' = << >>
    /\ i' = 1
    /\ listing_status' = 0
    /\ titles_from' = << >>
    /\ details_from' = << >>
    /\ UNCHANGED << disk, requests, prev, other >>

\* The exit status of the process when main is at p: 0 after main returned,
\* 1 after an exception nobody caught.
ExitStatus(p) == IF p = "crashed" THEN 1 ELSE 0

Next ==
    \/ GetSeminarLinks
    \/ ScrapeSeminarPage
    \/ Load
    \/ ProcessCandidate
    \/ Save
    \/ Restart

Spec == Init /\ [][Next]_vars

----------------------------------------------------------------------------
(***************************************************************************)
(* Runs in which the file system fails.  load_workbook of an existing file *)
(* can raise (the file is locked, or is not a readable workbook); wb.save   *)
(* writes to EXCEL_FILE itself and can raise before it opened the file or  *)
(* after it started to write.  Only FileNotFoundError is caught.           *)
(***************************************************************************)
\* The exceptions load_workbook can raise for a stored file.
LoadErrors(d) == IF d = Unreadable THEN {"BadZipFile"} ELSE {"PermissionError"}

\* A slip: a bare except clause.
CaughtAny(err) == TRUE

\* The except clause of save_to_excel.
Caught(err) == err = "FileNotFoundError"

\* load_workbook raises for a file that exists.
LoadFails ==
    /\ pc = "load"
    /\ disk # NoFile
    /\ \E err \in LoadErrors(disk) :
          IF Caught(err)
          THEN /\ sheet' = NewWorkbook
               /\ execution_date' = strftime(clock)
               /\ existing_titles' = ReadTitles(sheet')
               /\ i' = 1
               /\ pc' = IF Len(seminar_titles) = 0 THEN "save" ELSE "loop"
          ELSE /\ pc' = "crashed"
               /\ UNCHANGED << sheet, execution_date, existing_titles, i >>
    /\ UNCHANGED << disk, clock, requests, seminar_links, link_i, seminar_titles,
                    seminar_details, responses, prev, listing_status,
                    titles_from, details_from, other >>

\* wb.save raises: the file is as it was, or holds a part of the new one.
SaveFails ==
    /\ pc = "save"
    /\ disk' \in {disk, Unreadable}
    /\ pc' = "crashed"
    /\ UNCHANGED << clock, requests, seminar_links, link_i, seminar_titles,
                    seminar_details, responses, sheet, execution_date,
                    existing_titles, i, prev, listing_status, titles_from,
                    details_from, other >>

NextFaults ==
    \/ Next
    \/ LoadFails
    \/ SaveFails

SpecFaults == Init /\ [][NextFaults]_vars

----------------------------------------------------------------------------
(***************************************************************************)
(* Two invocations of the script on the same EXCEL_FILE.  The second one   *)
(* is started once, at any time; its loop works on its own sheet, so the   *)
(* steps the first can see are its load and its save.                      *)
(***************************************************************************)
\* Bound of the model: the candidates of the second invocation.
MaxOtherBatch == 1

\* The candidates a seminar page can give.
Candidates == (Titles \cup {NoName}) \X (Details \cup {NoDetails})

\* The loop of save_to_excel over a whole batch.
RECURSIVE ReconcileAll(_, _, _, _, _)
ReconcileAll(sh, existing, titles, details, date) ==
    IF titles = << >>
    THEN sh
    ELSE ReconcileAll(Reconcile(sh, existing, Head(titles), Head(details), date),
                      existing, Tail(titles), Tail(details), date)

\* main of the second invocation up to save_to_excel: the listing and one
\* seminar page per candidate are fetched.
OtherScrape ==
    /\ other.pc = "idle"
    /\ \E batch \in SeqUpTo(Candidates, MaxOtherBatch) :
          /\ batch # << >>
          /\ requests + 1 + Len(batch) <= MaxRequests
          /\ requests' = requests + 1 + Len(batch)
          /\ other' = [pc |-> "load",
                       titles |-> [k \in 1..Len(batch) |-> batch[k][1]],
                       details |-> [k \in 1..Len(batch) |-> batch[k][2]],
                       sheet |-> << >>]
    /\ UNCHANGED << disk, clock, pc, seminar_links, link_i, seminar_titles,
                    seminar_details, responses, sheet, execution_date,
                    existing_titles, i, prev, listing_status, titles_from,
                    details_from >>

\* save_to_excel of the second invocation up to wb.save.
OtherLoad ==
    /\ other.pc = "load"
    /\ disk # Unreadable
    /\ LET loaded == IF disk = NoFile THEN NewWorkbook ELSE disk
       IN  other' = [other EXCEPT
                       !.pc = "save",
                       !.sheet = ReconcileAll(loaded, ReadTitles(loaded),
                                              other.titles, other.details,
                                              strftime(clock))]
    /\ UNCHANGED << disk, clock, requests, pc, seminar_links, link_i,
                    seminar_titles, seminar_details, responses, sheet,
                    execution_date, existing_titles, i, prev, listing_status,
                    titles_from, details_from >>

\* wb.save of the second invocation.
OtherSave ==
    /\ other.pc = "save"
    /\ disk' = other.sheet
    /\ other' = [other EXCEPT !.pc = "done"]
    /\ UNCHANGED << clock, requests, pc, seminar_links, link_i, seminar_titles,
                    seminar_details, responses, sheet, execution_date,
                    existing_titles, i, prev, listing_status, titles_from,
                    details_from >>

NextTwo ==
    \/ Next
    \/ OtherScrape
    \/ OtherLoad
    \/ OtherSave

SpecTwo == Init /\ [][NextTwo]_vars

----------------------------------------------------------------------------
(***************************************************************************)
(* Reading a sheet as records.  The header row labels column 2 the title, *)
(* 3 and 4 the date and details of the creation, and from column 6 on one  *)
(* pair of columns per update: date in 4 + 2k, details in 5 + 2k.          *)
(***************************************************************************)
DateColumn(k) == 4 + 2 * k
DetailsColumn(k) == 5 + 2 * k

\* The data rows of a sheet.
DataRows(sh) == 2..Len(sh)

\* The titles stored in a sheet.
Keys(sh) == { Cell(sh, r, 2) : r \in DataRows(sh) }

\* The row of the record of a stored title: the first row holding it.
RowOf(sh, title) ==
    CHOOSE r \in DataRows(sh) :
        /\ Cell(sh, r, 2) = title
        /\ \A q \in DataRows(sh) : q < r => Cell(sh, q, 2) # title

\* The number of updates logged in a row.
NumUpdates(sh, row) ==
    Cardinality({ k \in 1..Len(sh[row]) : Cell(sh, row, DateColumn(k)) # None })

\* The versions of a row, oldest first, each << date, details >>.
Versions(sh, row) ==
    [v \in 1..(NumUpdates(sh, row) + 1) |->
        IF v = 1
        THEN << Cell(sh, row, 3), Cell(sh, row, 4) >>
        ELSE << Cell(sh, row, DateColumn(v - 1)),
                Cell(sh, row, DetailsColumn(v - 1)) >>]

\* The details of the most recent version of a row.
LastContent(sh, row) == Versions(sh, row)[NumUpdates(sh, row) + 1][2]

\* Every cell written in old holds the same value in new.
CellsKept(old, new) ==
    /\ Len(new) >= Len(old)
    /\ \A r \in 1..Len(old) : \A c \in 1..Len(old[r]) :
          old[r][c] # None => Cell(new, r, c) = old[r][c]

\* The candidate the loop of save_to_excel is at, and the one it just did.
CurTitle == seminar_titles[i]
CurDetails == seminar_details[i]
DoneTitle == seminar_titles[i - 1]
DoneDetails == seminar_details[i - 1]

\* save_to_excel is at a candidate / has just processed one.
AtCandidate == pc = "loop"
AfterCandidate == pc \in {"loop", "save"} /\ i > 1

----------------------------------------------------------------------------
\* C1: a candidate whose title is in the table and whose details equal the
\* details of the record's most recent version leaves every cell of the
\* record's row as it was (no new pair, no new date).
C1_NoOpOnUnchanged ==
    [][ (AtCandidate /\ CurTitle \in Keys(disk)
            /\ CurDetails = LastContent(sheet, RowOf(sheet, CurTitle)))
        => sheet'[RowOf(sheet, CurTitle)] = sheet[RowOf(sheet, CurTitle)] ]_vars

\* C2: when save_to_excel is run again with the batch of the run before it,
\* whose titles were all new then, the table it is about to save is the
\* table already stored.
C2_SecondRunUnchanged ==
    (pc = "save" /\ prev.fresh /\ prev.titles # << >>
        /\ seminar_titles = prev.titles /\ seminar_details = prev.details)
    => sheet = disk

\* C3: in the stored table no record has two consecutive versions with the
\* same details.
C3_NoEqualConsecutive ==
    \A r \in DataRows(disk) : \A v \in 1..NumUpdates(disk, r) :
        Versions(disk, r)[v][2] # Versions(disk, r)[v + 1][2]

\* C4: in the stored table no two data rows hold the same title.
C4_KeyUnique ==
    \A r, q \in DataRows(disk) : r # q => Cell(disk, r, 2) # Cell(disk, q, 2)

\* C5: a candidate whose title is not in the table adds one row at the
\* bottom holding the title, the date of the run and the details in columns
\* 2-4 and nothing else; every other row stays as it was.
C5_CreateAddsOneRow ==
    [][ (AtCandidate /\ CurTitle \notin Keys(disk))
        => sheet' = Append(sheet, << None, CurTitle, strftime(clock), CurDetails >>)
      ]_vars

\* C5 witness: a row was just added below an existing record.
C5_Created ==
    /\ AfterCandidate
    /\ DoneTitle \notin Keys(disk)
    /\ Len(disk) >= 2
    /\ sheet[Len(sheet)] = << None, DoneTitle, strftime(clock), DoneDetails >>

\* C6: a candidate whose title is in the table and whose details differ from
\* the details of the record's most recent version appends exactly one
\* version << date of the run, details >> to the record, in the first update
\* pair of the row that was not in use.
C6_AppendOneVersion ==
    [][ (AtCandidate /\ CurTitle \in Keys(disk)
            /\ CurDetails # LastContent(sheet, RowOf(sheet, CurTitle)))
        => LET row == RowOf(sheet, CurTitle)
               n == NumUpdates(sheet, row)
           IN  /\ Cell(sheet, row, DateColumn(n + 1)) = None
               /\ Cell(sheet, row, DetailsColumn(n + 1)) = None
               /\ Cell(sheet', row, DateColumn(n + 1)) = strftime(clock)
               /\ Cell(sheet', row, DetailsColumn(n + 1)) = CurDetails
               /\ NumUpdates(sheet', row) = n + 1
               /\ Versions(sheet', row)
                    = Append(Versions(sheet, row), << strftime(clock), CurDetails >>)
      ]_vars

\* C6 witness: a second or later update was just logged for a changed record.
C6_Appended ==
    /\ AfterCandidate
    /\ DoneTitle \in Keys(disk)
    /\ LET row == RowOf(sheet, DoneTitle)
           n == NumUpdates(sheet, row)
       IN  /\ n >= 2
           /\ n > NumUpdates(disk, row)
           /\ Versions(sheet, row)[n + 1] = << strftime(clock), DoneDetails >>
           /\ Versions(sheet, row)[n][2] # DoneDetails

\* C7: no step overwrites or clears a written cell or moves or drops a row,
\* in the stored table and in the sheet being reconciled; a candidate with
\* a stored title changes no row but its record's, adds no row, and the
\* number of updates of a row never decreases.
C7_AppendOnly ==
    [][ /\ CellsKept(disk, disk')
        /\ pc = "load" => CellsKept(disk, sheet')
        /\ AtCandidate =>
             /\ CellsKept(sheet, sheet')
             /\ \A r \in DataRows(sheet) :
                    NumUpdates(sheet', r) >= NumUpdates(sheet, r)
             /\ CurTitle \in Keys(disk) =>
                  /\ Len(sheet') = Len(sheet)
                  /\ \A r \in 1..Len(sheet) :
                        r # RowOf(sheet, CurTitle) => sheet'[r] = sheet[r]
      ]_vars

\* C7 witness: a record that already had an update got another one, next
\* to other rows, and every stored cell is still in the sheet.
C7_GrewInPlace ==
    /\ AfterCandidate
    /\ DoneTitle \in Keys(disk)
    /\ Len(disk) >= 3
    /\ NumUpdates(sheet, RowOf(disk, DoneTitle)) >= 2
    /\ NumUpdates(sheet, RowOf(disk, DoneTitle))
          > NumUpdates(disk, RowOf(disk, DoneTitle))
    /\ CellsKept(disk, sheet)

\* The number of updates of a row when update k is read in columns 3 + 2k
\* and 4 + 2k.
UpdatesFromColumn5(sh, row) ==
    Cardinality({ k \in 1..Len(sh[row]) : Cell(sh, row, 3 + 2 * k) # None })

\* C8: update k of a record has its date in column 3 + 2k and its details in
\* column 4 + 2k, so the written cells of a data row are columns 2..4 + 2k
\* with no gap; and a candidate with a stored title leaves the sheet as it
\* is exactly when its details equal the details cell of the highest filled
\* pair (column 4 when there is no update).
C8_UpdatesFromColumn5 ==
    [][ /\ \A r \in DataRows(disk') :
              /\ Len(disk'[r]) % 2 = 0
              /\ \A c \in 2..Len(disk'[r]) : Cell(disk', r, c) # None
        /\ (AtCandidate /\ CurTitle \in Keys(disk)) =>
              LET row == RowOf(sheet, CurTitle)
                  k == UpdatesFromColumn5(sheet, row)
              IN  (sheet' = sheet) <=> (CurDetails = Cell(sheet, row, 4 + 2 * k))
      ]_vars

\* C9: every column that holds version data in some row of the stored table
\* has a header cell in row 1.
C9_EveryColumnLabelled ==
    \A r \in DataRows(disk) : \A c \in 3..Len(disk[r]) :
        Cell(disk, r, c) # None => Cell(disk, 1, c) # None

\* The seminar page responses of this run that had status 200.
Fetched == { k \in 1..Len(responses) : responses[k] = 200 }

\* C10 as claimed: the batch handed to save_to_excel has one candidate per
\* discovered URL.
C10_OneCandidatePerURL ==
    pc = "load" =>
        /\ Len(seminar_titles) = Len(seminar_links)
        /\ Len(seminar_details) = Len(seminar_links)

\* C10 as amended: while scraping and when the batch is handed to
\* save_to_excel, there is one title and one details entry (the sentinel for
\* a missing tag) per seminar page fetched with status 200, and none for a
\* page whose fetch returned another status.
C10_OneCandidatePerFetchedPage ==
    pc \in {"scrape", "load"} =>
        /\ Len(responses) = link_i - 1
        /\ pc = "load" => Len(responses) = Len(seminar_links)
        /\ Len(seminar_titles) = Cardinality(Fetched)
        /\ Len(seminar_details) = Cardinality(Fetched)
        /\ \A k \in 1..Len(seminar_titles) : seminar_titles[k] \in Titles \cup {NoName}
        /\ \A k \in 1..Len(seminar_details) : seminar_details[k] \in Details \cup {NoDetails}

\* C10 witness: of two discovered pages one failed and the other, without
\* <h1> and sidebar, gave the one sentinel candidate of the batch.
C10_FailedPageDropped ==
    /\ pc = "load"
    /\ Len(seminar_links) = 2
    /\ responses = << 500, 200 >>
    /\ seminar_titles = << NoName >>
    /\ seminar_details = << NoDetails >>

----------------------------------------------------------------------------
\* C11: a seminar page answered with a status other than 200 does not end
\* the run: the for loop of main goes on to the next link, one link after
\* the other in listing order, until every link was requested; then
\* save_to_excel loads the workbook, goes through every candidate of the
\* pages that answered 200, and saves the sheet.
C11_FailedPageDoesNotAbort ==
    [][ /\ pc = "scrape" =>
             /\ link_i' = link_i + 1
             /\ Len(responses') = link_i
             /\ pc' = IF link_i < Len(seminar_links) THEN "scrape" ELSE "load"
             /\ pc' = "scrape" => link_i' <= Len(seminar_links')
        /\ pc = "load" =>
             /\ Len(responses) = Len(seminar_links)
             /\ Len(seminar_titles) = Cardinality(Fetched)
             /\ pc' = IF seminar_titles # << >> THEN "loop" ELSE "save"
             /\ i' = 1
        /\ pc = "loop" =>
             /\ i' = i + 1
             /\ pc' = IF i < Len(seminar_titles) THEN "loop" ELSE "save"
        /\ pc = "save" =>
             /\ i = Len(seminar_titles) + 1
             /\ disk' = sheet
             /\ pc' = "done"
      ]_vars

\* C11 witness: the first of two pages failed, the second was scraped and
\* its candidate is in the table that was saved.
C11_SavedAfterFailedPage ==
    /\ pc = "done"
    /\ responses = << 500, 200 >>
    /\ Len(seminar_titles) = 1
    /\ disk = sheet
    /\ seminar_titles[1] \in Keys(disk)

\* C12: a listing response with a status other than 200 ends the run at
\* once: no links, no candidates, no seminar page requested, save_to_excel
\* not entered (no sheet loaded), the stored workbook as it was; the next
\* step is the next run.
C12_FailedListingEndsRun ==
    [][ /\ (pc = "main" /\ listing_status' # 200) =>
             /\ pc' = "done"
             /\ seminar_links' = << >>
             /\ seminar_titles' = << >>
             /\ seminar_details' = << >>
             /\ responses' = << >>
             /\ requests' = requests + 1
             /\ sheet' = << >>
             /\ disk' = disk
        /\ (listing_status # 0 /\ listing_status # 200) =>
             /\ pc = "done"
             /\ pc' = "main"
             /\ requests' = requests
             /\ disk' = disk
      ]_vars

\* C12 witness: a run whose listing failed has ended, with a workbook stored
\* by an earlier run.
C12_ListingFailed ==
    /\ pc = "done"
    /\ listing_status = 500
    /\ seminar_links = << >>
    /\ disk # NoFile

\* C13: a run whose listing response had a status other than 200 ends with
\* a non-zero exit status, and a run that ended otherwise with exit status 0
\* (so the two can be told apart by the exit status).
C13_ExitStatusTellsFailure ==
    pc = "done" =>
        /\ listing_status # 200 => ExitStatus(pc) # 0
        /\ listing_status = 200 => ExitStatus(pc) = 0

\* C14: when wb.save raises, the stored workbook is the one that was stored
\* before the run.
C14_FailedSaveKeepsTable ==
    [][ (pc = "save" /\ pc' = "crashed") => disk' = disk ]_vars

\* C15: when the two invocations have both saved, the stored table holds a
\* record for every candidate of either (no update is lost).
C15_NoLostUpdate ==
    (pc = "done" /\ other.pc = "done") =>
        /\ \A k \in 1..Len(seminar_titles) : seminar_titles[k] \in Keys(disk)
        /\ \A k \in 1..Len(other.titles) : other.titles[k] \in Keys(disk)

\* The permutations of 1..n.
Perms(n) == { p \in [1..n -> 1..n] : \A a, b \in 1..n : a # b => p[a] # p[b] }

\* Two sheets hold the same rows, whatever their order.
SameRows(a, b) ==
    /\ Len(a) = Len(b)
    /\ { a[r] : r \in 1..Len(a) } = { b[r] : r \in 1..Len(b) }

\* The sheet save_to_excel loads from the stored file.
Loaded == IF disk = NoFile THEN NewWorkbook ELSE disk

\* C16: when save_to_excel has gone through a batch of pairwise distinct
\* titles, its sheet is the result of the loop over the batch, and the loop
\* over any reordering of the batch gives a sheet with the same rows (the
\* same title, dates and details in every row) and, for every title, the
\* same versions in its record; only row positions can differ.
C16_OrderIndependent ==
    (pc = "save"
        /\ \A a, b \in 1..Len(seminar_titles) :
               a # b => seminar_titles[a] # seminar_titles[b])
    => /\ sheet = ReconcileAll(Loaded, ReadTitles(Loaded), seminar_titles,
                               seminar_details, execution_date)
       /\ \A p \in Perms(Len(seminar_titles)) :
             LET reordered ==
                   ReconcileAll(Loaded, ReadTitles(Loaded),
                                [k \in 1..Len(seminar_titles) |-> seminar_titles[p[k]]],
                                [k \in 1..Len(seminar_titles) |-> seminar_details[p[k]]],
                                execution_date)
             IN  /\ SameRows(sheet, reordered)
                 /\ Keys(reordered) = Keys(sheet)
                 /\ \A t \in Keys(sheet) :
                       Versions(reordered, RowOf(reordered, t))
                         = Versions(sheet, RowOf(sheet, t))

\* C16 witness: a batch of a new title followed by a stored title whose
\* record got an update.
C16_NewThenUpdated ==
    /\ pc = "save"
    /\ Len(seminar_titles) = 2
    /\ seminar_titles[1] # seminar_titles[2]
    /\ seminar_titles[1] \notin Keys(disk)
    /\ seminar_titles[2] \in Keys(disk)
    /\ NumUpdates(sheet, RowOf(sheet, seminar_titles[2]))
          > NumUpdates(disk, RowOf(disk, seminar_titles[2]))

\* C17: save_to_excel starts from a new workbook only when the file does
\* not exist, else from the stored one; when load_workbook raises anything
\* else the run ends there: no sheet, no candidate processed, nothing
\* saved, the stored file as it was until the next run; and no candidate is
\* ever processed while the stored file cannot be read.
C17_OnlyMissingFileStartsFresh ==
    [][ /\ pc = "load" =>
             /\ disk' = disk
             /\ pc' # "crashed" =>
                   /\ disk # Unreadable
                   /\ sheet' = IF disk = NoFile THEN NewWorkbook ELSE disk
             /\ pc' = "crashed" =>
                   /\ disk # NoFile
                   /\ sheet' = << >>
                   /\ i' = i
        /\ pc = "crashed" => (disk' = disk /\ pc' = "main")
        /\ disk = Unreadable => pc' \notin {"loop", "save"}
      ]_vars

\* C17 witness: load_workbook raised for a stored table with a record while
\* candidates were waiting; the run has ended and the table is as it was.
C17_LoadRaised ==
    /\ pc = "crashed"
    /\ sheet = << >>
    /\ seminar_titles # << >>
    /\ disk # Unreadable
    /\ Len(disk) >= 2

\* Row r of a sheet holds a title that an earlier data row holds too.
LaterRowOfKey(sh, r) ==
    \E q \in DataRows(sh) : q < r /\ Cell(sh, q, 2) = Cell(sh, r, 2)

\* C18: a data row whose title is also in an earlier row is never changed,
\* in the sheet being reconciled and in the stored table; a candidate with
\* a stored title is compared with the cell last_column - 1 of the first
\* row holding the title, and it is that row that gets the update.
C18_OnlyFirstRowOfKey ==
    [][ /\ \A r \in DataRows(disk) :
              LaterRowOfKey(disk, r) => disk'[r] = disk[r]
        /\ AtCandidate =>
              /\ \A r \in DataRows(sheet) :
                    LaterRowOfKey(sheet, r) => sheet'[r] = sheet[r]
              /\ CurTitle \in Keys(disk) =>
                    LET first == RowOf(sheet, CurTitle)
                    IN  /\ (sheet' # sheet) <=> (CurDetails # LastDetails(sheet, first))
                        /\ \A r \in 1..Len(sheet) : r # first => sheet'[r] = sheet[r]
      ]_vars

\* C18 witness: the stored table holds a title in two rows, and a candidate
\* with that title has just put an update into the first of them.
C18_FirstOfTwoUpdated ==
    /\ AfterCandidate
    /\ \E q, r \in DataRows(disk) :
          /\ q < r
          /\ Cell(disk, q, 2) = DoneTitle
          /\ Cell(disk, r, 2) = DoneTitle
          /\ NumUpdates(sheet, q) > NumUpdates(disk, q)
          /\ sheet[r] = disk[r]

\* The positions k of 1..n with responses[k] = 200, in increasing order.
RECURSIVE FetchedInOrder(_)
FetchedInOrder(n) ==
    IF n = 0 THEN << >>
    ELSE IF responses[n] = 200 THEN Append(FetchedInOrder(n - 1), n)
    ELSE FetchedInOrder(n - 1)

\* C19: seminar_titles and seminar_details always have the same length,
\* entry k of both comes from the same link, the links they come from are
\* the links answered with status 200 in listing order, and the loop of
\* save_to_excel is never at an index past the end of either list.
C19_TitlesAndDetailsPaired ==
    /\ Len(seminar_titles) = Len(seminar_details)
    /\ Len(titles_from) = Len(seminar_titles)
    /\ titles_from = details_from
    /\ titles_from = FetchedInOrder(Len(responses))
    /\ pc = "loop" => (i <= Len(seminar_titles) /\ i <= Len(seminar_details))

\* C19 witness: of three pages the first failed; the loop of save_to_excel
\* is at the second of the two candidates, which differ in title and details.
C19_PairedAfterFailure ==
    /\ pc = "loop"
    /\ i = 2
    /\ responses = << 500, 200, 200 >>
    /\ titles_from = << 2, 3 >>
    /\ seminar_titles[1] # seminar_titles[2]
    /\ seminar_details[1] # seminar_details[2]

====
